---- MODULE Spec2Model ----
(***************************************************************************)
(* Minimum-cost network flow: the graph model, the validator, the LP       *)
(* formulation and the result interpretation of NetworkFlow                *)
(* (src/include/NetworkFlow.hpp, src/src/NetworkFlow.cpp).                 *)
(*                                                                         *)
(* Numbers.  Balances and flows are doubles in the program.  The model     *)
(* keeps them in fixed point: one tick is 1e-6 / Res, so that 1e-6 is Res  *)
(* ticks and 1e-5 is 10 * Res ticks.  Res is a multiple of every number of *)
(* edges the model allows, so a balance divided by the number of edges     *)
(* that share one LP variable is still a whole number of ticks.  Costs are *)
(* whole numbers; an objective value is in cost * ticks.                   *)
(***************************************************************************)
EXTENDS Integers, Sequences, FiniteSets, TLC

VARIABLES numNodes, balances, edges, last

vars == <<numNodes, balances, edges, last>>

(* ------------------------------ bounds -------------------------------- *)

\* The largest number of edges a graph of the model holds.
MaxEdges == 2

\* The node counts construct(n) is called with.
NodeCounts == {0, 1, 2}

RECURSIVE Factorial(_)
Factorial(n) == IF n <= 1 THEN 1 ELSE n * Factorial(n - 1)

\* Ticks per 1e-6.
Res == Factorial(MaxEdges)

\* The balances setBalance is called with, in units of 1e-6: two nodes of
\* 6 are out of balance beyond the tolerance, one is within it.
BalanceMicros == {-6, 0, 6}

BalanceInputs == {m * Res : m \in BalanceMicros}

\* The unit costs addEdge is called with.
CostInputs == {-1, 2}

(* ------------------------ program constants --------------------------- *)

\* isBalanced: std::abs(sum) < 1e-5, in units of 1e-6.
BalanceTolerance == 10

\* solve: flow > 1e-6, in units of 1e-6.
FlowThreshold == 1

(* ------------------------------ helpers ------------------------------- *)

Abs(v) == IF v < 0 THEN -v ELSE v

\* The sum of f[i] over the finite set S of indices.
RECURSIVE SumOver(_, _)
SumOver(f, S) ==
    IF S = {} THEN 0
    ELSE LET i == CHOOSE j \in S : TRUE
         IN  f[i] + SumOver(f, S \ {i})

\* struct Edge.
Edge(f, t, c) == [from |-> f, to |-> t, cost |-> c]

\* What is known of the last call: the operation, the arguments of a call
\* that returned (those of a call that threw are not kept), the exception
\* that left it ("none" when it returned), its return value ("none" when an
\* exception left it) and, for solve, what the solving engine did during
\* the call.
NoRun == [outcome |-> "none", x |-> <<>>, fault |-> "none", k |-> 0,
          kind |-> "none"]

Returned(op, args, ret) ==
    [op |-> op, args |-> args, threw |-> "none", ret |-> ret, run |-> NoRun]

Thrown(op, exception) ==
    [op |-> op, args |-> <<>>, threw |-> exception, ret |-> "none",
     run |-> NoRun]

(* ---------------------------- Graph Model ----------------------------- *)

\* NetworkFlow::NetworkFlow(int n): n nodes, zero balances, no edges.
Init ==
    /\ numNodes \in NodeCounts
    /\ balances = [i \in 1..numNodes |-> 0]
    /\ edges = <<>>
    /\ last = Returned("construct", <<>>, "void")

\* The range test of setBalance, addEdge, getBalance and validate.
OutOfRange(node) == node < 1 \/ node > numNodes

\* setBalance that indexes balances[node] instead of balances[node - 1].
setBalance_OffByOne(node, b) ==
    IF OutOfRange(node)
    THEN /\ last' = Thrown("setBalance", "std::out_of_range")
         /\ UNCHANGED <<numNodes, balances, edges>>
    ELSE /\ balances' = [balances EXCEPT ![(node % numNodes) + 1] = b]
         /\ last' = Returned("setBalance", <<node, b>>, "void")
         /\ UNCHANGED <<numNodes, edges>>

\* void NetworkFlow::setBalance(int node, double b)
setBalance(node, b) ==
    IF OutOfRange(node)
    THEN /\ last' = Thrown("setBalance", "std::out_of_range")
         /\ UNCHANGED <<numNodes, balances, edges>>
    ELSE /\ balances' = [balances EXCEPT ![node] = b]
         /\ last' = Returned("setBalance", <<node, b>>, "void")
         /\ UNCHANGED <<numNodes, edges>>

\* addEdge that tests only the source node of the edge.
addEdge_FromOnly(from, to, cost) ==
    IF OutOfRange(from)
    THEN /\ last' = Thrown("addEdge", "std::out_of_range")
         /\ UNCHANGED <<numNodes, balances, edges>>
    ELSE /\ Len(edges) < MaxEdges
         /\ edges' = Append(edges, Edge(from, to, cost))
         /\ last' = Returned("addEdge", <<from, to, cost>>, "void")
         /\ UNCHANGED <<numNodes, balances>>

\* void NetworkFlow::addEdge(int from, int to, double cost)
addEdge(from, to, cost) ==
    IF OutOfRange(from) \/ OutOfRange(to)
    THEN /\ last' = Thrown("addEdge", "std::out_of_range")
         /\ UNCHANGED <<numNodes, balances, edges>>
    ELSE /\ Len(edges) < MaxEdges
         /\ edges' = Append(edges, Edge(from, to, cost))
         /\ last' = Returned("addEdge", <<from, to, cost>>, "void")
         /\ UNCHANGED <<numNodes, balances>>

\* int NetworkFlow::getNumNodes() const
getNumNodes == numNodes

\* double NetworkFlow::getBalance(int node) const
getBalance(node) == IF OutOfRange(node) THEN 0 ELSE balances[node]

\* const vector<Edge> &NetworkFlow::getEdges() const
getEdges == edges

(* ------------------------------ Validator ----------------------------- *)

\* isBalanced with the tolerance test turned into <=.
isBalanced_Inclusive ==
    Abs(SumOver(balances, DOMAIN balances)) <= BalanceTolerance * Res

\* bool NetworkFlow::isBalanced() const
isBalanced ==
    Abs(SumOver(balances, DOMAIN balances)) < BalanceTolerance * Res

\* The test validate makes of one edge.
InvalidEdge(e) == OutOfRange(e.from) \/ OutOfRange(e.to)

\* The text validate returns for an edge it rejects.
InvalidEdgeText(e) ==
    "Invalid edge: " \o ToString(e.from) \o "->" \o ToString(e.to)

\* The loop of validate over the edges, from edge j on: the first invalid
\* edge ends it.
RECURSIVE scanEdges(_)
scanEdges(j) ==
    IF j > Len(edges) THEN "valid"
    ELSE IF InvalidEdge(edges[j]) THEN InvalidEdgeText(edges[j])
    ELSE scanEdges(j + 1)

\* validate that scans the edges before it looks at the balance.
validate_EdgesFirst ==
    IF scanEdges(1) # "valid" THEN scanEdges(1)
    ELSE IF ~isBalanced THEN "Supply and demand are not balanced."
    ELSE "valid"

\* string NetworkFlow::validate() const
validate ==
    IF ~isBalanced THEN "Supply and demand are not balanced."
    ELSE scanEdges(1)

(* ------------------------------ Formulator ---------------------------- *)

\* The key under which solve files an edge's variable and its flow.
EdgeKey(e) == <<e.from, e.to>>

EdgeIdx == 1..Len(edges)

\* The edge whose variable the key names once every edge has been entered:
\* edgeVars[{from, to}] = var overwrites the entry of an earlier edge with
\* the same ends, so it is the LAST edge with these ends.  Variables are
\* numbered like the edges.
LastEdgeWith(key) ==
    CHOOSE j \in EdgeIdx :
        /\ EdgeKey(edges[j]) = key
        /\ \A h \in EdgeIdx : EdgeKey(edges[h]) = key => h <= j

\* map<pair<int,int>, IloNumVar> edgeVars after the loop that creates one
\* variable per edge.
edgeVars ==
    [key \in {EdgeKey(edges[j]) : j \in EdgeIdx} |-> LastEdgeWith(key)]

\* edgeVars.at({e.from, e.to}) for edge number j.
VarOfEdge(j) == LastEdgeWith(EdgeKey(edges[j]))

\* The objective: totalCost += e.cost * var, for the variable of each edge.
objective == [j \in EdgeIdx |-> edges[j].cost]

\* netFlow that has lost the branch for the edges into the node.
netFlow_OutflowOnly(node, v) ==
    SumOver([j \in EdgeIdx |->
              - (IF edges[j].from = node /\ VarOfEdge(j) = v THEN 1 ELSE 0)],
            EdgeIdx)

\* The coefficient of variable v in netFlow of a node: +1 for each edge
\* into the node and -1 for each edge out of it, on the variable the
\* edge's key names.
netFlow(node, v) ==
    SumOver([j \in EdgeIdx |->
                (IF edges[j].to = node /\ VarOfEdge(j) = v THEN 1 ELSE 0)
              - (IF edges[j].from = node /\ VarOfEdge(j) = v THEN 1 ELSE 0)],
            EdgeIdx)

\* The right-hand side without the negation: netFlow == supply.
rhs_NotNegated(node) == getBalance(node)

\* The right-hand side of a node's constraint: netFlow == -supply.
rhs(node) == -getBalance(node)

\* The linear program solve hands to the engine.
Formulate ==
    [nvars |-> Len(edges),
     lower |-> [j \in EdgeIdx |-> 0],
     objective |-> objective,
     rows |-> [node \in 1..numNodes |-> [v \in EdgeIdx |-> netFlow(node, v)]],
     rhs |-> [node \in 1..numNodes |-> rhs(node)]]

(* ---------------------------- Solving engine --------------------------- *)
(* The engine is outside the repository.  It is modelled by what a linear  *)
(* program means: it reports Optimal only with values that satisfy every   *)
(* row and minimise the objective, Infeasible only when no values satisfy  *)
(* the rows, Unbounded only when the objective decreases without limit     *)
(* along a direction that keeps the rows, which does not establish that    *)
(* some values satisfy the rows: a program without solution that has such  *)
(* a direction may be reported Infeasible or Unbounded.  The engine may    *)
(* give up on any program (Other), and any call into it may raise a        *)
(* fault: the construction of the environment before the try block, the   *)
(* calls inside the try block, and env.end() after the handlers.           *)

\* cost . x
Dot(c, x) == SumOver([j \in DOMAIN x |-> c[j] * x[j]], DOMAIN x)

\* x satisfies every row of lp.
Satisfies(lp, x) ==
    \A node \in DOMAIN lp.rows : Dot(lp.rows[node], x) = lp.rhs[node]

\* The number of times variable v occurs in the rows of a non-loop edge.
Weight(lp, v) ==
    LET S == {Abs(lp.rows[node][v]) : node \in DOMAIN lp.rows} \ {0}
    IN  IF S = {} THEN 0 ELSE CHOOSE w \in S : TRUE

\* The absolute sums of the right-hand sides over sets of nodes: the values
\* a basic solution of a flow problem puts on an edge.
SubsetSums(lp) ==
    {Abs(SumOver(lp.rhs, S)) : S \in SUBSET (DOMAIN lp.rhs)}

\* The values among sums that a variable of weight w can take.
Shares(sums, w) == {z \div w : z \in {s \in sums : s % w = 0}}

\* A value a variable takes that occurs in no row (it is held only by the
\* objective): any value >= 0 is as good for the rows; one positive value
\* stands for them.
FreeValue == 5 * FlowThreshold * Res

\* The values the engine may report for variable v.
ValuesOf(lp, v) ==
    IF Weight(lp, v) = 0 THEN {0, FreeValue}
    ELSE Shares(SubsetSums(lp), Weight(lp, v))

\* The points whose v-th coordinate is one of vals[v], for v in 1..n.
RECURSIVE Box(_, _)
Box(vals, n) ==
    IF n = 0 THEN {<<>>}
    ELSE {Append(x, val) : x \in Box(vals, n - 1), val \in vals[n]}

Points(lp) == Box([v \in 1..lp.nvars |-> ValuesOf(lp, v)], lp.nvars)

FeasiblePoints(lp) == {x \in Points(lp) : Satisfies(lp, x)}

\* The directions that leave the value of every row as it is: a cycle of
\* edges (a self-loop is one), or a variable that is in no row.  They are
\* directions of the program whether or not some values satisfy its rows.
Rays(lp) ==
    {d \in [1..lp.nvars -> {0} \cup {Res \div m : m \in 1..MaxEdges}] :
        /\ \E v \in 1..lp.nvars : d[v] > 0
        /\ \A node \in DOMAIN lp.rows : Dot(lp.rows[node], d) = 0}

\* The points of F with the least objective.
Cheapest(lp, F) ==
    {x \in F : \A y \in F : Dot(lp.objective, x) <= Dot(lp.objective, y)}

\* The exceptions a call into the engine, or an allocation, may raise:
\* IloException and std::exception, each with a description.
FaultKinds == {"IloException", "std::exception"}

FaultText == "out of memory"

\* What cplex.solve() and cplex.getStatus() report for lp, with the values
\* of the variables when the outcome is Optimal.  Unbounded is reported on
\* the evidence of a direction of decreasing objective, whether or not the
\* rows can be satisfied.
EngineOutcomes(lp) ==
    LET unbounded ==
            IF \E d \in Rays(lp) : Dot(lp.objective, d) < 0
            THEN {<<"Unbounded", <<>>>>} ELSE {}
        outcomesOf(F) ==
            IF F = {} THEN {<<"Infeasible", <<>>>>} \cup unbounded
            ELSE IF unbounded # {} THEN unbounded
            ELSE {<<"Optimal", x>> : x \in Cheapest(lp, F)}
    IN  outcomesOf(FeasiblePoints(lp)) \cup {<<"Other", <<>>>>}

\* One run of the engine.
Run(o, x, f, k, kind) ==
    [outcome |-> o, x |-> x, fault |-> f, k |-> k, kind |-> kind]

\* The calls into the engine that solve() makes outside its try block:
\* IloEnv env, before it, and env.end(), after the handlers.
OutsideTry == {"IloEnv", "env.end"}

\* What the engine does during one solve(): the outcome of cplex.solve(),
\* the values it holds for the variables, and the call that raised a fault
\* (fault, and for getValue the edge k it was called for), if any did.
\*   IloEnv    : the construction of the environment, before the try block
\*   formulate : building the model, the variables, the objective or a row
\*   solve     : cplex.solve()
\*   getObjValue, getValue (edge k), getStatus : reading the results
\*   env.end   : env.end(), after the try block and its handlers; the
\*               outcome is the one cplex.solve() had reported
RunsWith(lp, o) ==
    {Run(o[1], o[2], "none", 0, "none")}
    \cup {Run(o[1], o[2], "env.end", 0, kind) : kind \in FaultKinds}
    \cup (IF o[1] = "Optimal"
          THEN {Run(o[1], o[2], "getObjValue", 0, kind) : kind \in FaultKinds}
               \cup {Run(o[1], o[2], "getValue", kk[1], kk[2]) :
                        kk \in (1..lp.nvars) \X FaultKinds}
          ELSE {Run(o[1], o[2], "getStatus", 0, kind) : kind \in FaultKinds})

\* env.end() is reached, and may raise its fault, also when the try block
\* was left by a fault that a handler caught before cplex.solve() reported
\* (outcome "none").
EngineRuns(lp) ==
    {Run("none", <<>>, f, 0, kind) :
        f \in {"IloEnv", "formulate", "solve", "env.end"}, kind \in FaultKinds}
    \cup UNION {RunsWith(lp, o) : o \in EngineOutcomes(lp)}

\* cplex.getObjValue()
getObjValue(lp, x) == Dot(lp.objective, x)

(* -------------------------- Result Interpreter ------------------------- *)

\* A Solution that is kept from one solve() to the next instead of being
\* constructed in the call.
Solution_Kept ==
    IF last.op = "solve" /\ last.threw = "none" THEN last.ret
    ELSE [solved |-> FALSE, totalCost |-> 0, flows |-> <<>>, status |-> ""]

\* Solution(): solved(false), totalCost(0.0), no flows, empty status.
Solution == [solved |-> FALSE, totalCost |-> 0, flows |-> <<>>, status |-> ""]

\* result.flows[{from, to}] = flow
PutFlow(flows, key, flow) ==
    [q \in (DOMAIN flows) \cup {key} |-> IF q = key THEN flow ELSE flows[q]]

\* The loop that reads the flows, over the edges 1..upto: the value read for
\* an edge is that of the variable its key names.
RECURSIVE readFlows(_, _)
readFlows(x, upto) ==
    IF upto = 0 THEN <<>>
    ELSE LET flows == readFlows(x, upto - 1)
             flow == x[VarOfEdge(upto)]
         IN  IF flow > FlowThreshold * Res
             THEN PutFlow(flows, EdgeKey(edges[upto]), flow)
             ELSE flows

\* The catch clauses of solve: only the status is written.
catch(result, kind) ==
    [result EXCEPT !.status =
        (IF kind = "IloException" THEN "CPLEX Exception: "
         ELSE "STD Exception: ") \o FaultText]

\* The try block with the test of getStatus() against Unbounded left out.
tryBody_NoUnbounded(result, lp, run) ==
    IF run.fault \in {"formulate", "solve"} THEN result
    ELSE IF run.outcome = "Optimal"
    THEN LET r1 == [result EXCEPT !.solved = TRUE]
         IN  IF run.fault = "getObjValue" THEN r1
             ELSE LET r2 == [r1 EXCEPT !.totalCost = getObjValue(lp, run.x),
                                       !.status = "Optimal"]
                  IN  IF run.fault = "getValue"
                      THEN [r2 EXCEPT !.flows = readFlows(run.x, run.k - 1)]
                      ELSE [r2 EXCEPT !.flows = readFlows(run.x, Len(edges))]
    ELSE LET r1 == [result EXCEPT !.status = "No solution found"]
         IN  IF run.fault = "getStatus" THEN r1
             ELSE IF run.outcome = "Infeasible"
                  THEN [r1 EXCEPT !.status = "Infeasible"]
             ELSE r1

\* The body of the try block of solve, up to its end or to the fault.
tryBody(result, lp, run) ==
    IF run.fault \in {"formulate", "solve"} THEN result
    ELSE IF run.outcome = "Optimal"
    THEN LET r1 == [result EXCEPT !.solved = TRUE]
         IN  IF run.fault = "getObjValue" THEN r1
             ELSE LET r2 == [r1 EXCEPT !.totalCost = getObjValue(lp, run.x),
                                       !.status = "Optimal"]
                  IN  IF run.fault = "getValue"
                      THEN [r2 EXCEPT !.flows = readFlows(run.x, run.k - 1)]
                      ELSE [r2 EXCEPT !.flows = readFlows(run.x, Len(edges))]
    ELSE LET r1 == [result EXCEPT !.status = "No solution found"]
         IN  IF run.fault = "getStatus" THEN r1
             ELSE IF run.outcome = "Infeasible"
                  THEN [r1 EXCEPT !.status = "Infeasible"]
             ELSE IF run.outcome = "Unbounded"
                  THEN [r1 EXCEPT !.status = "Unbounded"]
             ELSE r1

\* Solution NetworkFlow::solve() const, for one run of the engine.  A fault
\* of IloEnv env is raised before the try block and one of env.end() after
\* the handlers: no handler is in reach, the exception leaves solve() and
\* no Solution is returned.  A fault inside the try block is caught.
solve(run) ==
    IF run.fault \in OutsideTry
    THEN [Thrown("solve", run.kind) EXCEPT !.run = run]
    ELSE LET result == tryBody(Solution, Formulate, run)
         IN  [Returned("solve", <<>>,
                       IF run.fault = "none" THEN result
                       ELSE catch(result, run.kind))
              EXCEPT !.run = run]

(* ------------------------------ the calls ------------------------------ *)

NodeArgs == 0..(numNodes + 1)

CallSetBalance == \E node \in NodeArgs, b \in BalanceInputs : setBalance(node, b)

CallAddEdge ==
    \E from \in NodeArgs, to \in NodeArgs, cost \in CostInputs :
        addEdge(from, to, cost)

CallGetNumNodes ==
    /\ last' = Returned("getNumNodes", <<>>, getNumNodes)
    /\ UNCHANGED <<numNodes, balances, edges>>

CallGetBalance ==
    \E node \in NodeArgs :
        /\ last' = Returned("getBalance", <<node>>, getBalance(node))
        /\ UNCHANGED <<numNodes, balances, edges>>

CallGetEdges ==
    /\ last' = Returned("getEdges", <<>>, getEdges)
    /\ UNCHANGED <<numNodes, balances, edges>>

CallIsBalanced ==
    /\ last' = Returned("isBalanced", <<>>, isBalanced)
    /\ UNCHANGED <<numNodes, balances, edges>>

CallValidate ==
    /\ last' = Returned("validate", <<>>, validate)
    /\ UNCHANGED <<numNodes, balances, edges>>

CallSolve ==
    \E run \in EngineRuns(Formulate) :
        /\ last' = solve(run)
        /\ UNCHANGED <<numNodes, balances, edges>>

Next ==
    \/ CallSetBalance
    \/ CallAddEdge
    \/ CallGetNumNodes
    \/ CallGetBalance
    \/ CallGetEdges
    \/ CallIsBalanced
    \/ CallValidate
    \/ CallSolve

Spec == Init /\ [][Next]_vars

(* The validator as a function of the three fields of the object, whatever *)
(* they hold: the edges are taken with ends from 0 to numNodes + 1, which   *)
(* covers the edges validate() rejects.                                     *)

EdgeInputs ==
    {Edge(f, t, 2) : f \in 0..(numNodes + 1), t \in 0..(numNodes + 1)}

\* Balances on both sides of the tolerance 1e-5 and on it, in units of 1e-6.
ValidateBalances == {m * Res : m \in {-10, -1, 0, 1, 10}}

InitValidate ==
    /\ numNodes \in NodeCounts
    /\ balances \in [1..numNodes -> ValidateBalances]
    /\ edges \in UNION {[1..n -> EdgeInputs] : n \in 0..MaxEdges}
    /\ last = Returned("construct", <<>>, "void")

NextValidate ==
    \/ CallIsBalanced
    \/ CallValidate

SpecValidate == InitValidate /\ [][NextValidate]_vars

(* ------------------------------- claims -------------------------------- *)

\* The Solution of the last call, when it was a solve() that returned.
sol == last.ret

\* The last call was a solve() that returned a Solution.
SolveReturned == last.op = "solve" /\ last.threw = "none"

InRange(node) == node \in 1..numNodes

\* 1e-5 and 1e-6 in ticks.
Tol == BalanceTolerance * Res
Eps == FlowThreshold * Res

BalanceSum == SumOver(balances, DOMAIN balances)

IsFaultStatus(status) ==
    status \in {"CPLEX Exception: " \o FaultText, "STD Exception: " \o FaultText}

\* The linear program of the formulation rules: one variable per edge, and
\* in a node's row +1 on the variable of each edge into the node and -1 on
\* the variable of each edge out of it.
ReferenceLP ==
    [nvars |-> Len(edges),
     lower |-> [j \in EdgeIdx |-> 0],
     objective |-> [j \in EdgeIdx |-> edges[j].cost],
     rows |-> [node \in 1..numNodes |-> [v \in EdgeIdx |->
                  (IF edges[v].to = node THEN 1 ELSE 0)
                - (IF edges[v].from = node THEN 1 ELSE 0)]],
     rhs |-> [node \in 1..numNodes |-> -balances[node]]]

\* C1: the linear program solve() builds has one variable per edge, with
\* cost(e) * x_e in the objective, and for every node the row
\* (sum of x_e over edges into it) - (sum of x_e over edges out of it)
\* = -balance, each edge on its own variable, parallel edges and self-loops
\* included.
C1_OneVariablePerEdge == last.op = "solve" => Formulate = ReferenceLP

\* The flow recorded for edge j: the entry of its key, or none.
Recorded(flows, j) ==
    IF EdgeKey(edges[j]) \in DOMAIN flows THEN flows[EdgeKey(edges[j])] ELSE 0

\* (sum of the recorded flows of the edges into the node) - (sum of the
\* recorded flows of the edges out of it).
RecordedNet(flows, node) ==
    SumOver([j \in EdgeIdx |->
                (IF edges[j].to = node THEN Recorded(flows, j) ELSE 0)
              - (IF edges[j].from = node THEN Recorded(flows, j) ELSE 0)],
            EdgeIdx)

\* The numerical tolerance of the round trip: a flow of at most 1e-6 is not
\* recorded, on any edge.
RoundTripTol == Eps * Len(edges)

\* C2 as stated: on a feasible balanced graph solve() returns solved = true
\* and flows whose net inflow at every node equals the node's balance.  It
\* is read for the calls in which the engine raises no fault and finds the
\* optimum.
C2_RoundTripAsStated ==
    (last.op = "solve" /\ isBalanced
        /\ FeasiblePoints(ReferenceLP) # {}
        /\ last.run.fault = "none" /\ last.run.outcome = "Optimal")
    => /\ last.threw = "none"
       /\ sol.solved
       /\ \A node \in 1..numNodes :
            Abs(RecordedNet(sol.flows, node) - balances[node]) <= RoundTripTol

\* C2 as amended: whenever solve() returns status "Optimal" it returns
\* solved = true and flows whose net inflow at every node (the edges taken
\* with the flow recorded under their key) equals MINUS the node's balance,
\* within 1e-6 per edge.
C2_RoundTrip ==
    (SolveReturned /\ sol.status = "Optimal")
    => /\ sol.solved
       /\ \A node \in 1..numNodes :
            Abs(RecordedNet(sol.flows, node) + balances[node]) <= RoundTripTol

C2_Witness ==
    /\ SolveReturned
    /\ sol.status = "Optimal"
    /\ DOMAIN sol.flows # {}
    /\ isBalanced
    /\ \E node \in 1..numNodes : balances[node] > 0

\* C3: validate() returns "valid" exactly when |sum of balances| < 1e-5 and
\* every edge has both ends in [1, N]; when the sum is at or beyond the
\* tolerance it returns the balance message whatever the edges; otherwise it
\* returns the message naming the first invalid edge in insertion order.
C3_Validate ==
    last.op = "validate" =>
        LET balanced == Abs(BalanceSum) < Tol
            bad == {j \in EdgeIdx :
                        ~InRange(edges[j].from) \/ ~InRange(edges[j].to)}
        IN  /\ last.ret = "valid" <=> (balanced /\ bad = {})
            /\ ~balanced => last.ret = "Supply and demand are not balanced."
            /\ (balanced /\ bad # {}) =>
                 LET first == CHOOSE j \in bad : \A h \in bad : j <= h
                 IN  last.ret = "Invalid edge: " \o ToString(edges[first].from)
                                   \o "->" \o ToString(edges[first].to)

C3_Witness ==
    /\ last.op = "validate"
    /\ Len(edges) = 2
    /\ InRange(edges[1].from) /\ InRange(edges[1].to)
    /\ ~InRange(edges[2].to)
    /\ last.ret \notin {"valid", "Supply and demand are not balanced."}

\* C4: setBalance with a node outside [1, n] and addEdge with an end outside
\* [1, n] throw out_of_range and leave node count, balances and edges as
\* they were; in range, setBalance changes that node's balance alone and
\* addEdge appends one edge at the end of the edge sequence.
C4_Writes ==
    [][/\ last'.op = "setBalance" =>
            IF last'.threw = "none"
            THEN /\ InRange(last'.args[1])
                 /\ balances' = [i \in 1..numNodes |->
                                    IF i = last'.args[1] THEN last'.args[2]
                                    ELSE balances[i]]
                 /\ numNodes' = numNodes /\ edges' = edges
            ELSE /\ last'.threw = "std::out_of_range"
                 /\ UNCHANGED <<numNodes, balances, edges>>
       /\ last'.op = "addEdge" =>
            IF last'.threw = "none"
            THEN /\ InRange(last'.args[1]) /\ InRange(last'.args[2])
                 /\ Len(edges') = Len(edges) + 1
                 /\ SubSeq(edges', 1, Len(edges)) = edges
                 /\ edges'[Len(edges')] =
                        [from |-> last'.args[1], to |-> last'.args[2],
                         cost |-> last'.args[3]]
                 /\ numNodes' = numNodes /\ balances' = balances
            ELSE /\ last'.threw = "std::out_of_range"
                 /\ UNCHANGED <<numNodes, balances, edges>>
      ]_vars

C4_Witness ==
    /\ last.op = "addEdge"
    /\ last.threw = "std::out_of_range"
    /\ Len(edges) >= 1
    /\ \E node \in 1..numNodes : balances[node] # 0

\* C5: solve() returns a Solution whatever the engine does; when a fault
\* was raised, at any step of formulation, solving or reading the results,
\* the Solution has solved = false and a status made of the prefix of the
\* fault's kind and the fault's description.
C5_FaultsAbsorbed ==
    last.op = "solve" =>
        /\ last.threw = "none"
        /\ last.run.fault # "none" =>
             /\ sol.solved = FALSE
             /\ sol.status =
                   (IF last.run.kind = "IloException" THEN "CPLEX Exception: "
                    ELSE "STD Exception: ") \o FaultText

\* C6: solve() classifies what the engine reports: Optimal gives solved =
\* true, status "Optimal" and totalCost = the objective value; Infeasible
\* and Unbounded give solved = false and their own status; any other outcome
\* gives solved = false and "No solution found"; so solved = true exactly
\* when status = "Optimal".
C6_Classification ==
    (last.op = "solve" /\ last.run.fault = "none") =>
        /\ last.run.outcome = "Optimal" =>
             /\ sol.solved /\ sol.status = "Optimal"
             /\ sol.totalCost =
                    SumOver([j \in EdgeIdx |-> edges[j].cost * last.run.x[j]],
                            EdgeIdx)
        /\ last.run.outcome = "Infeasible" =>
             ~sol.solved /\ sol.status = "Infeasible"
        /\ last.run.outcome = "Unbounded" =>
             ~sol.solved /\ sol.status = "Unbounded"
        /\ last.run.outcome = "Other" =>
             ~sol.solved /\ sol.status = "No solution found"
        /\ sol.solved <=> sol.status = "Optimal"

C6_Witness ==
    /\ last.op = "solve"
    /\ last.run.fault = "none"
    /\ last.run.outcome = "Unbounded"
    /\ sol.status = "Unbounded"

\* The flows after the loop of solve() has read the edges 1..j, by the rule
\* of the claim: an edge whose OWN variable exceeds 1e-6 puts that value
\* under its key, any other edge adds nothing.
RECURSIVE ownFlows(_, _)
ownFlows(x, j) ==
    IF j = 0 THEN <<>>
    ELSE IF x[j] > Eps
         THEN PutFlow(ownFlows(x, j - 1), EdgeKey(edges[j]), x[j])
         ELSE ownFlows(x, j - 1)

\* C7: on an Optimal outcome, each edge whose own variable exceeds 1e-6 puts
\* that value in flows under its (from, to), an edge whose own variable does
\* not exceed 1e-6 adds no entry; so every key of flows is the (from, to) of
\* an edge and every value of flows is above 1e-6.
C7_FlowsOfOwnVariables ==
    (last.op = "solve" /\ last.run.outcome = "Optimal"
        /\ last.run.fault \in {"none", "getValue"}) =>
        LET read == IF last.run.fault = "none" THEN Len(edges)
                    ELSE last.run.k - 1
        IN  /\ sol.flows = ownFlows(last.run.x, read)
            /\ \A key \in DOMAIN sol.flows :
                 /\ \E j \in EdgeIdx : EdgeKey(edges[j]) = key
                 /\ sol.flows[key] > Eps

\* C8: the read-only operations and solve() leave node count, balances and
\* edges as they were; called again with nothing written in between,
\* validate(), isBalanced(), getEdges(), getNumNodes() and getBalance() of
\* the same node return what they returned; and a solve() that finds no
\* solution returns solved = false, totalCost = 0 and no flows whatever the
\* call before it returned.
ReadOps ==
    {"getNumNodes", "getBalance", "getEdges", "isBalanced", "validate", "solve"}

C8_ReadOnly ==
    [][/\ last'.op \in ReadOps => UNCHANGED <<numNodes, balances, edges>>
       /\ (last'.op = last.op
             /\ last.op \in {"getNumNodes", "getEdges", "isBalanced", "validate"})
          => last'.ret = last.ret
       /\ (last'.op = "getBalance" /\ last.op = "getBalance"
             /\ last'.args = last.args)
          => last'.ret = last.ret
       /\ (last'.op = "solve" /\ last'.threw = "none"
             /\ (last'.run.outcome # "Optimal"))
          => /\ last'.ret.solved = FALSE
             /\ last'.ret.totalCost = 0
             /\ last'.ret.flows = <<>>
      ]_vars

C8_Witness ==
    /\ last.op = "solve"
    /\ last.run.outcome = "Other"
    /\ last.run.fault = "none"
    /\ FeasiblePoints(Formulate) # {}
    /\ \E node \in 1..numNodes : balances[node] > 0

\* C9 as stated: on a graph whose balances do not sum to zero within the
\* tolerance, solve() never returns solved = true, and what it reports is
\* "Infeasible" or a fault (a fault status, or the fault itself).
C9_UnbalancedAsStated ==
    (last.op = "solve" /\ Abs(BalanceSum) >= Tol) =>
        \/ last.threw \in FaultKinds
        \/ /\ sol.solved = FALSE
           /\ sol.status = "Infeasible" \/ IsFaultStatus(sol.status)

\* C9 as amended: on such a graph solve() never returns solved = true; the
\* Solution it returns has status "Infeasible", "Unbounded", "No solution
\* found" (the engine reported neither of the two) or a fault status, never
\* "Optimal" or a validation message; and when it returns no Solution, it
\* is a fault of the engine raised outside the try block that left it.
C9_Unbalanced ==
    (last.op = "solve" /\ Abs(BalanceSum) >= Tol) =>
        IF last.threw = "none"
        THEN /\ sol.solved = FALSE
             /\ \/ sol.status \in {"Infeasible", "Unbounded",
                                   "No solution found"}
                \/ IsFaultStatus(sol.status)
        ELSE /\ last.threw \in FaultKinds
             /\ last.run.fault \in OutsideTry

C9_Witness ==
    /\ SolveReturned
    /\ Abs(BalanceSum) >= Tol
    /\ sol.status = "Unbounded"
    /\ FeasiblePoints(Formulate) = {}
    /\ \E j \in EdgeIdx : edges[j].from = edges[j].to /\ edges[j].cost < 0

\* C10: after construct(n) and any calls, the node count is unchanged, there
\* are numNodes balances, every stored edge has both ends in [1, numNodes],
\* and validate() is decided by the balance alone.
C10_GraphInvariant ==
    /\ [](/\ DOMAIN balances = 1..numNodes
          /\ \A j \in EdgeIdx : InRange(edges[j].from) /\ InRange(edges[j].to)
          /\ validate \in {"valid", "Supply and demand are not balanced."}
          /\ validate = "valid" <=> Abs(BalanceSum) < Tol)
    /\ [][numNodes' = numNodes]_vars

C10_Witness ==
    /\ last.op = "addEdge"
    /\ last.threw = "std::out_of_range"
    /\ Len(edges) = MaxEdges
    /\ validate = "Supply and demand are not balanced."

====
